---- MODULE Spec2Model ----
(***************************************************************************)
(* A model of mypy_primer/main.py: project selection and cost-balanced     *)
(* sharding (select_projects), the streaming differential run (primer)     *)
(* and the regression bisection driver (bisect).                           *)
(*                                                                         *)
(* The specifications share one set of variables:                         *)
(*   SpecShard   select_projects, called once per shard_index              *)
(*   SpecShardOrder  the same over project lists in location order        *)
(*   SpecPrimer  primer: the as_completed loop over primer_result tasks    *)
(*   SpecBisect  bisect: baseline batch, git bisect set-up, step loop      *)
(*   SpecDiag    validate_expected_success, measure_project_runtimes and   *)
(*               coverage                                                  *)
(*   SpecMain    main: the process from sys.argv to sys.exit, running the  *)
(*               coroutine of the selected mode                            *)
(* Each specification keeps the variables it does not use at their         *)
(* construction values.                                                    *)
(***************************************************************************)
EXTENDS Integers, Sequences, FiniteSets, TLC

VARIABLES
    ARGS,        \* ctx.get(): the options the run was started with
    corpus,      \* get_projects(): the known projects, in corpus order
    ret,         \* SpecShard: value returned by select_projects per shard_index
    p_pc,        \* SpecPrimer: position of the primer coroutine
    tasks,       \* SpecPrimer: state of each primer_result task
    completed,   \* SpecPrimer: tasks finished and not yet consumed, completion order
    consumed,    \* SpecPrimer: results the loop has awaited, in order
    printed,     \* SpecPrimer: projects whose result was printed, in order
    retcode,     \* SpecPrimer: the local retcode of primer
    projects,    \* the list select_projects returned to the coroutine
    b_pc,        \* SpecBisect: position of the bisect coroutine
    runs,        \* SpecBisect: state of each run_wrapper task of the current batch
    old_results, \* SpecBisect: dict of the baseline batch
    results,     \* SpecBisect: dict of the current step's batch
    git,         \* SpecBisect: the bisect_mypy checkout and git's bisection state
    state,       \* SpecBisect: verdict of the current step
    hist,        \* SpecBisect: observation record (steps, reports, order of events)
    d_pc,        \* SpecDiag: position of the diagnostic coroutine
    inners,      \* SpecDiag: state of each per-project task of the gather
    d_printed,   \* SpecDiag: what the coroutine printed, in order
    proc         \* SpecMain: the process (position, base directory, exit code)

vars == <<ARGS, corpus, ret, p_pc, tasks, completed, consumed, printed, retcode,
          projects, b_pc, runs, old_results, results, git, state, hist,
          d_pc, inners, d_printed, proc>>

shardVars  == <<ret>>
primerVars == <<p_pc, tasks, completed, consumed, printed, retcode>>
bisectVars == <<b_pc, runs, old_results, results, git, state, hist>>
diagVars   == <<d_pc, inners, d_printed>>

(***************************************************************************)
(* Bounds of the model.                                                    *)
(***************************************************************************)
MaxProjects == 3      \* corpus locations are 1..MaxProjects
MaxCost == 5          \* Project.cost ranges over 0..MaxCost
MaxShards == 3        \* --num-shards ranges over 0..MaxShards (0: not given)
MaxBisectProjects == 2 \* bisect runs over up to MaxBisectProjects projects
MaxRevs == 4          \* the bisected history has 2..MaxRevs revisions
MaxDiagProjects == 2  \* the diagnostic passes run over up to MaxDiagProjects projects
MaxRuntime == 2       \* MypyResult.runtime and line counts range over 1..MaxRuntime
MaxMainRevs == 3      \* SpecMain: the bisected history has 2..MaxMainRevs revisions

Locations == 1..MaxProjects
Costs == 0..MaxCost

None == 0             \* an option that was not given (falsy in Python)

(***************************************************************************)
(* Generic helpers.                                                        *)
(***************************************************************************)
Range(s) == {s[i] : i \in DOMAIN s}

RECURSIVE SumCost(_)
SumCost(s) == IF s = <<>> THEN 0 ELSE s[1].cost + SumCost(Tail(s))

RECURSIVE SetMax(_)
SetMax(S) ==
    IF S = {} THEN 0
    ELSE LET x == CHOOSE y \in S : TRUE
             m == SetMax(S \ {x})
         IN IF x > m THEN x ELSE m

\* All sequences without repetition over the set S.
RECURSIVE Perms(_)
Perms(S) ==
    IF S = {} THEN {<<>>}
    ELSE UNION {{<<x>> \o t : t \in Perms(S \ {x})} : x \in S}

(***************************************************************************)
(* Project values (mypy_primer.model.Project, as far as main.py reads it). *)
(***************************************************************************)
Project(l, c, e) ==
    [location |-> l, cost |-> c, expected_success |-> e, revision |-> None]

\* Project.from_location: a project known only by its location.
from_location(l) == Project(l, 1, FALSE)

\* dataclasses.replace(p, revision=...)
replace_revision(p, r) == [p EXCEPT !.revision = r]

\* re.search(ARGS.project_selector, p.location, flags=re.I): the selectors
\* of the model are the patterns that match exactly one corpus location.
selector_matches(selector, location) == selector = location

\* Lines 145-155: the generator pipeline over get_projects().
keeps(args, p) ==
    /\ (args.project_selector # None
            => selector_matches(args.project_selector, p.location))
    /\ (args.expected_success => p.expected_success)

dated(args, p) ==
    IF args.project_date # None THEN replace_revision(p, args.project_date) ELSE p

RECURSIVE filtered_projects(_, _)
filtered_projects(args, all) ==
    IF all = <<>> THEN <<>>
    ELSE IF keeps(args, all[1])
         THEN <<dated(args, all[1])>> \o filtered_projects(args, Tail(all))
         ELSE filtered_projects(args, Tail(all))

(***************************************************************************)
(* Sharding, lines 159-167.                                                *)
(***************************************************************************)
\* The sort key (p.cost, p.location), compared as Python compares tuples.
KeyLess(p, q) ==
    \/ p.cost < q.cost
    \/ (p.cost = q.cost /\ p.location < q.location)

\* Whether p goes before q in sorted(..., reverse=True).
SortsBeforeAsc(p, q) == KeyLess(p, q)
SortsBefore(p, q) == KeyLess(q, p)

\* Insert p into the sorted sequence s behind every element that does not
\* sort after it (sorted is stable, also with reverse=True).
RECURSIVE InsertSorted(_, _)
InsertSorted(s, p) ==
    IF s = <<>> THEN <<p>>
    ELSE IF SortsBefore(p, s[1]) THEN <<p>> \o s
         ELSE <<s[1]>> \o InsertSorted(Tail(s), p)

RECURSIVE sorted_projects(_)
sorted_projects(s) ==
    IF s = <<>> THEN <<>>
    ELSE InsertSorted(sorted_projects(SubSeq(s, 1, Len(s) - 1)), s[Len(s)])

\* min(range(num_shards), key=lambda i: shard_costs[i]): the first index
\* of least accumulated cost.
min_shard_last(shard_costs) ==
    CHOOSE i \in DOMAIN shard_costs :
        \A j \in DOMAIN shard_costs :
            /\ shard_costs[i] <= shard_costs[j]
            /\ (shard_costs[j] = shard_costs[i] => j <= i)
min_shard(shard_costs) ==
    CHOOSE i \in DOMAIN shard_costs :
        \A j \in DOMAIN shard_costs :
            /\ shard_costs[i] <= shard_costs[j]
            /\ (shard_costs[j] = shard_costs[i] => i <= j)

\* shard_projects[min_shard].append(p)
append_replacing(shard_projects, i, p) == [shard_projects EXCEPT ![i] = <<p>>]
append_to_shard(shard_projects, i, p) == [shard_projects EXCEPT ![i] = Append(@, p)]

\* The for loop of lines 163-166 over the sorted list s.
RECURSIVE assign_shards(_, _, _)
assign_shards(s, shard_costs, shard_projects) ==
    IF s = <<>> THEN shard_projects
    ELSE LET p == s[1]
             m == min_shard(shard_costs)
         IN assign_shards(Tail(s),
                          [shard_costs EXCEPT ![m] = @ + p.cost],
                          append_to_shard(shard_projects, m, p))

shard_all(ps, n) ==
    assign_shards(sorted_projects(ps),
                  [i \in 0..(n - 1) |-> 0],
                  [i \in 0..(n - 1) |-> <<>>])

\* What one call of select_projects returns or raises.
Returned(ps) == [status |-> "returned", projects |-> ps]
Raised(e) == [status |-> e, projects |-> <<>>]
NotCalled == [status |-> "not called", projects |-> <<>>]

select_projects(args, all, shard_index) ==
    IF args.local_project # None
    THEN Returned(<<from_location(args.local_project)>>)
    ELSE LET ps == filtered_projects(args, all)
         IN IF ps = <<>> THEN Raised("ValueError")
            ELSE IF args.num_shards # 0
                 THEN Returned(shard_all(ps, args.num_shards)[shard_index])
                 ELSE Returned(ps)

(***************************************************************************)
(* The options.  debug only adds prints and is left out.                   *)
(***************************************************************************)
DefaultArgs ==
    [local_project |-> None, project_selector |-> None,
     expected_success |-> FALSE, project_date |-> None, num_shards |-> 0,
     old_success |-> FALSE, output |-> "full", bisect_output |-> <<>>,
     new_typeshed |-> FALSE, old_typeshed |-> FALSE,
     coverage |-> FALSE, bisect |-> FALSE,
     validate_expected_success |-> FALSE,
     measure_project_runtimes |-> FALSE, clear |-> FALSE]

\* A date given with --project-date.
SomeDate == 1

(***************************************************************************)
(* SpecShard: select_projects as the CI calls it, once per shard_index.    *)
(***************************************************************************)
\* The corpora: up to MaxProjects projects of pairwise distinct locations,
\* in any order.  CostedCorpora vary the costs; FlaggedCorpora vary
\* expected_success, every project at the default cost.
OrderedBy(order, cost, exp) ==
    [k \in 1..Len(order) |-> Project(order[k], cost[order[k]], exp[order[k]])]

CostedCorpus(c) ==
    \E S \in SUBSET Locations : \E order \in Perms(S) : \E cost \in [S -> Costs] :
        c = OrderedBy(order, cost, [l \in S |-> TRUE])

FlaggedCorpus(c) ==
    \E S \in SUBSET Locations : \E order \in Perms(S) : \E exp \in [S -> BOOLEAN] :
        c = OrderedBy(order, [l \in S |-> 1], exp)

\* The options of a sharded run without selection filters, and the options
\* with one of the selection filters given.
ShardArgs == {[DefaultArgs EXCEPT !.num_shards = n] : n \in 0..MaxShards}

FilterArgs ==
    {[DefaultArgs EXCEPT !.num_shards = n, !.expected_success = TRUE]
            : n \in 0..MaxShards}
    \cup {[DefaultArgs EXCEPT !.num_shards = n, !.project_selector = l]
            : n \in 0..MaxShards, l \in Locations}
    \cup {[DefaultArgs EXCEPT !.num_shards = n, !.project_date = SomeDate]
            : n \in 0..MaxShards}
    \cup {[DefaultArgs EXCEPT !.num_shards = n, !.local_project = l]
            : n \in 0..MaxShards, l \in {1}}

\* The shard_index values of a run: 0..num_shards-1, or the single call
\* without sharding (written as index 0).
ShardIndexes(args) == IF args.num_shards = 0 THEN {0} ELSE 0..(args.num_shards - 1)

PrimerIdle ==
    /\ p_pc = "idle" /\ tasks = <<>> /\ completed = <<>> /\ consumed = <<>>
    /\ printed = <<>> /\ retcode = 0

BisectIdle ==
    /\ b_pc = "idle" /\ runs = <<>> /\ old_results = <<>>
    /\ results = <<>> /\ git = <<>> /\ state = "" /\ hist = <<>>

DiagIdle == d_pc = "idle" /\ inners = <<>> /\ d_printed = <<>>

\* The process is not part of the specification: the coroutine is run alone.
NoProc == [pc |-> "idle", base_dir |-> TRUE, exit_code |-> None, traces |-> 0,
           raised |-> ""]
MainIdle == proc = NoProc

\* asyncio.run has not ended: tasks can still make progress.
EventLoopRunning == proc.pc \in {"idle", "running"}

ShardInit ==
    /\ \/ CostedCorpus(corpus) /\ ARGS \in ShardArgs
       \/ FlaggedCorpus(corpus) /\ ARGS \in FilterArgs
    /\ ret = [i \in ShardIndexes(ARGS) |-> NotCalled]
    /\ projects = <<>>
    /\ PrimerIdle
    /\ BisectIdle
    /\ DiagIdle
    /\ MainIdle

\* The runs of the shards are independent of each other; their calls are
\* taken in the order of shard_index.
CallSelectProjects(i) ==
    /\ ret[i] = NotCalled
    /\ \A j \in DOMAIN ret : j < i => ret[j] # NotCalled
    /\ ret' = [ret EXCEPT ![i] = select_projects(ARGS, corpus, i)]
    /\ UNCHANGED <<ARGS, corpus, projects, primerVars, bisectVars, diagVars, proc>>

ShardNext == \E i \in DOMAIN ret : CallSelectProjects(i)

SpecShard == ShardInit /\ [][ShardNext]_vars

(***************************************************************************)
(* Properties of the sharding.                                             *)
(***************************************************************************)
Selected == filtered_projects(ARGS, corpus)

AllShardsReturned ==
    /\ ARGS.local_project = None
    /\ ARGS.num_shards >= 1
    /\ \A i \in DOMAIN ret : ret[i].status = "returned"

\* The places (shard, position) at which project p was returned.
PlacesOf(p) ==
    {<<i, j>> \in (DOMAIN ret) \X (1..MaxProjects) :
        j <= Len(ret[i].projects) /\ ret[i].projects[j] = p}

RECURSIVE SumOver(_, _)
SumOver(f, S) ==
    IF S = {} THEN 0
    ELSE LET x == CHOOSE y \in S : TRUE IN f[x] + SumOver(f, S \ {x})

ShardSizes == [i \in DOMAIN ret |-> Len(ret[i].projects)]
ShardCosts == [i \in DOMAIN ret |-> SumCost(ret[i].projects)]
EmptyShards == {i \in DOMAIN ret : ret[i].projects = <<>>}

\* C1: for a non-empty selection and N >= 1 shards, the lists returned for
\* shard_index 0..N-1 partition the selection: every selected project is
\* returned at exactly one place, nothing else is returned, the sizes add up
\* to the number of selected projects, and at least N - M shards are empty
\* when N exceeds the number M of projects.
C1_PartitionLaw ==
    (AllShardsReturned /\ Selected # <<>>) =>
        /\ \A k \in DOMAIN Selected : Cardinality(PlacesOf(Selected[k])) = 1
        /\ \A i \in DOMAIN ret : Range(ret[i].projects) \subseteq Range(Selected)
        /\ SumOver(ShardSizes, DOMAIN ret) = Len(Selected)
        /\ (ARGS.num_shards > Len(Selected)
                => Cardinality(EmptyShards) >= ARGS.num_shards - Len(Selected))

C1_Witness ==
    /\ AllShardsReturned
    /\ ARGS.num_shards = 3
    /\ Len(Selected) = 2
    /\ Cardinality(EmptyShards) = 1

RECURSIVE SetMin(_)
SetMin(S) ==
    LET x == CHOOSE y \in S : TRUE
    IN IF S = {x} THEN x
       ELSE LET m == SetMin(S \ {x}) IN IF x < m THEN x ELSE m

\* The least largest shard cost reachable from the shard costs `loads` by
\* placing the projects of ps, each on any shard.
RECURSIVE BestFrom(_, _)
BestFrom(ps, loads) ==
    IF ps = <<>> THEN SetMax(Range(loads))
    ELSE SetMin({BestFrom(Tail(ps), [loads EXCEPT ![i] = @ + ps[1].cost])
                    : i \in DOMAIN loads})

\* The least possible largest shard cost over all partitions into n shards.
OPT(ps, n) == BestFrom(ps, [i \in 1..n |-> 0])

GreedyMakespan == SetMax({ShardCosts[i] : i \in DOMAIN ret})

PlainCorpus(m) == [k \in 1..m |-> Project(k, 1, TRUE)]

\* A primer_result task: running, finished with a PrimerResult (of which
\* primer reads diff and old_result.success), or failed with an exception.
Running == [st |-> "running", diff |-> FALSE, old_success |-> FALSE]
Failed == [st |-> "failed", diff |-> FALSE, old_success |-> FALSE]
PrimerResult(d, o) == [st |-> "result", diff |-> d, old_success |-> o]

Cancelled == [st |-> "cancelled", diff |-> FALSE, old_success |-> FALSE]

Outputs == {"full", "diff", "concise"}

PrimerInit ==
    /\ \E m \in 0..MaxProjects : corpus = PlainCorpus(m)
    /\ \E o \in BOOLEAN, out \in Outputs :
            ARGS = [DefaultArgs EXCEPT !.old_success = o, !.output = out]
    /\ ret = <<>>
    /\ projects = <<>>
    /\ p_pc = "select_projects"
    /\ tasks = <<>> /\ completed = <<>> /\ consumed = <<>> /\ printed = <<>>
    /\ retcode = 0
    /\ BisectIdle
    /\ DiagIdle
    /\ MainIdle

\* Line 329.
PrimerSelect ==
    /\ p_pc = "select_projects"
    /\ LET r == select_projects(ARGS, corpus, 0)
       IN IF r.status = "returned"
          THEN projects' = r.projects /\ p_pc' = "setup_mypy"
          ELSE projects' = projects /\ p_pc' = "raised"
    /\ UNCHANGED <<ARGS, corpus, ret, diagVars, proc, tasks, completed, consumed, printed,
                   retcode, bisectVars>>

\* Lines 330-333: both checkers are installed, or an external command fails.
PrimerSetupMypy ==
    /\ p_pc = "setup_mypy"
    /\ \E ok \in BOOLEAN : p_pc' = IF ok THEN "setup_typeshed" ELSE "raised"
    /\ UNCHANGED <<ARGS, corpus, ret, diagVars, proc, tasks, completed, consumed, printed,
                   retcode, projects, bisectVars>>

\* Lines 334-350: the typeshed checkouts, then one primer_result coroutine
\* per project, retcode = 0, and as_completed schedules every coroutine.
PrimerStartTasks ==
    /\ p_pc = "setup_typeshed"
    /\ \E ok \in BOOLEAN :
        IF ok
        THEN /\ p_pc' = "as_completed"
             /\ tasks' = [k \in DOMAIN projects |-> Running]
             /\ retcode' = 0
        ELSE /\ p_pc' = "raised"
             /\ UNCHANGED <<tasks, retcode>>
    /\ UNCHANGED <<ARGS, corpus, ret, diagVars, proc, completed, consumed, printed,
                   projects, bisectVars>>

\* A primer_result task finishes, with a result or with an exception, and
\* joins the queue as_completed serves from.  Tasks are not cancelled by
\* primer, so they also finish after primer has raised.
TaskComplete(k) ==
    /\ p_pc \in {"as_completed", "raised"}
    /\ EventLoopRunning
    /\ k \in DOMAIN tasks
    /\ tasks[k] = Running
    /\ \E r \in {PrimerResult(d, o) : d \in BOOLEAN, o \in BOOLEAN} \cup {Failed} :
            tasks' = [tasks EXCEPT ![k] = r]
    /\ completed' = Append(completed, k)
    /\ UNCHANGED <<ARGS, corpus, ret, diagVars, proc, p_pc, consumed, printed, retcode,
                   projects, bisectVars>>

\* Line 352: the result is skipped.
skips_never(args, result) == FALSE
skips(args, result) == args.old_success /\ ~result.old_success

\* Lines 365-366.
retcode_overwritten(rc, result) == IF result.diff THEN 1 ELSE 0
retcode_after(rc, result) == IF rc = 0 /\ result.diff THEN 1 ELSE rc

\* The for loop ends when as_completed has served one awaitable per task.
loop_exhausted_early(n_consumed, n_tasks) == n_consumed >= n_tasks - 1
loop_exhausted(n_consumed, n_tasks) == n_consumed = n_tasks

\* Line 351: the exception of the awaited task leaves the loop; nothing
\* is done to the tasks as_completed has scheduled.
siblings_cancelled(ts) ==
    [k \in DOMAIN ts |-> IF ts[k] = Running THEN Cancelled ELSE ts[k]]
siblings_after_raise(ts) == ts

\* Lines 350-367: one iteration of the loop, from `await result_fut` on the
\* next finished task to the end of the body, and the return when that was
\* the last iteration.  In concise mode format_concise decides whether
\* anything is printed.
Consume ==
    /\ p_pc = "as_completed"
    /\ completed # <<>>
    /\ LET k == Head(completed)
           result == tasks[k]
       IN /\ completed' = Tail(completed)
          /\ consumed' = Append(consumed, k)
          /\ IF result.st = "failed"
             THEN /\ p_pc' = "raised"
                  /\ tasks' = siblings_after_raise(tasks)
                  /\ UNCHANGED <<printed, retcode>>
             ELSE /\ tasks' = tasks
                  /\ IF skips(ARGS, result)
                     THEN UNCHANGED <<printed, retcode>>
                     ELSE /\ retcode' = retcode_after(retcode, result)
                          /\ \/ /\ ARGS.output \in {"full", "diff", "concise"}
                                /\ printed' = Append(printed, k)
                             \/ /\ ARGS.output = "concise"
                                /\ printed' = printed
                  /\ p_pc' = IF loop_exhausted(Len(consumed'), Len(tasks))
                             THEN "done" ELSE "as_completed"
    /\ UNCHANGED <<ARGS, corpus, ret, diagVars, proc, projects, bisectVars>>

PrimerNext ==
    \/ PrimerSelect
    \/ PrimerSetupMypy
    \/ PrimerStartTasks
    \/ \E k \in 1..MaxProjects : TaskComplete(k)
    \/ Consume

SpecPrimer == PrimerInit /\ [][PrimerNext]_vars

(***************************************************************************)
(* Properties of primer.                                                   *)
(***************************************************************************)
NoDuplicates(s) == \A i, j \in DOMAIN s : s[i] = s[j] => i = j

FaultConsumed == \E i \in DOMAIN consumed : tasks[consumed[i]] = Failed

\* C3: the loop consumes each task's result at most once and only after the
\* task finished; it leaves the loop by an exception only when the result
\* it consumed last is a failed task; and primer returns only when exactly
\* one result per selected project has been consumed, whatever the order
\* of completion.
C3_StreamingCompleteness ==
    /\ NoDuplicates(consumed)
    /\ \A i \in DOMAIN consumed : tasks[consumed[i]] # Running
    /\ (p_pc = "raised" /\ tasks # <<>>)
            => (consumed # <<>> /\ tasks[consumed[Len(consumed)]] = Failed)
    /\ p_pc = "done"
            => /\ Len(consumed) = Len(projects)
               /\ Range(consumed) = DOMAIN projects
               /\ completed = <<>>
               /\ ~FaultConsumed

\* primer has returned after three results that completed out of order.
C3_Witness ==
    /\ p_pc = "done"
    /\ consumed = <<3, 1, 2>>

\* The results the loop does not skip.
Reported ==
    {k \in DOMAIN tasks :
        tasks[k].st = "result" /\ (ARGS.old_success => tasks[k].old_success)}

\* C4 as stated: primer returns 1 iff some selected project has a diff.
C4_AsStated ==
    p_pc = "done" => (retcode = 1 <=> \E k \in DOMAIN tasks : tasks[k].diff)

\* C4: primer returns 0 or 1, and 1 iff at least one result that the
\* old_success filter does not skip has a diff, whatever the order of
\* completion; once retcode is 1 it stays 1.
C4_ExitCode ==
    /\ [](p_pc = "done" =>
            /\ retcode \in {0, 1}
            /\ (retcode = 1 <=> \E k \in Reported : tasks[k].diff))
    /\ [][retcode = 1 => retcode' = 1]_vars

\* primer returned 1 although the result consumed last has no diff.
C4_Witness ==
    /\ p_pc = "done"
    /\ retcode = 1
    /\ Len(consumed) = 3
    /\ ~tasks[consumed[3]].diff
    /\ \E k \in DOMAIN tasks : tasks[k].diff /\ k \notin Reported

(***************************************************************************)
(* SpecBisect: bisect, lines 238-299.                                      *)
(*                                                                         *)
(* The history of the checker is linear, revisions OldRev..git.new; the    *)
(* editable install in bisect_mypy/mypy is the one shared checkout.  The   *)
(* output of a checker run is a sequence of tokens, a token being a piece  *)
(* of text or an ANSI colour code.                                         *)
(***************************************************************************)
OldRev == 1
NoRev == 0

Colour == "ESC[31m"
CheckerOutputs == {<<"Success">>, <<"error">>, <<Colour, "error">>}
Patterns == {<<"error">>}

\* utils.strip_colour_code: the text without its colour codes.
strip_colour_code(text) == SelectSeq(text, LAMBDA t : t # Colour)

\* re.search(pattern, text) for a literal pattern: it occurs somewhere.
re_search(pattern, text) ==
    \E i \in 0..(Len(text) - Len(pattern)) :
        SubSeq(text, i + 1, i + Len(pattern)) = pattern

\* Project.name, the key of the result dicts; unique in the corpus.
project_name(p) == p.location

\* A run_wrapper task of the current batch.
RunRunning == [st |-> "running", output |-> <<>>]
RunFailed == [st |-> "failed", output |-> <<>>]
MypyResult(o) == [st |-> "result", output |-> o]

\* dict(results_fut): the results of a finished batch by project name (a
\* later pair of the same name replaces an earlier one).
RECURSIVE dict_of(_, _)
dict_of(ps, rs) ==
    IF ps = <<>> THEN <<>>
    ELSE LET rest == dict_of(SubSeq(ps, 1, Len(ps) - 1), SubSeq(rs, 1, Len(rs) - 1))
             n == project_name(ps[Len(ps)])
         IN [k \in (DOMAIN rest) \cup {n} |->
                IF k = n THEN MypyResult(rs[Len(rs)].output) ELSE rest[k]]

\* Lines 274-277: any(re.search(...) for project in projects)
RECURSIVE any_matches(_, _, _)
any_matches(ps, pattern, rs) ==
    IF ps = <<>> THEN FALSE
    ELSE \/ re_search(pattern, strip_colour_code(rs[project_name(ps[1])].output))
         \/ any_matches(Tail(ps), pattern, rs)

\* Lines 278-280: all(results[name].output == old_results[name].output ...)
RECURSIVE all_equal_one_stripped(_, _, _)
all_equal_one_stripped(ps, rs, olds) ==
    IF ps = <<>> THEN TRUE
    ELSE /\ strip_colour_code(rs[project_name(ps[1])].output)
                = olds[project_name(ps[1])].output
         /\ all_equal_one_stripped(Tail(ps), rs, olds)

RECURSIVE all_equal(_, _, _)
all_equal(ps, rs, olds) ==
    IF ps = <<>> THEN TRUE
    ELSE /\ rs[project_name(ps[1])].output = olds[project_name(ps[1])].output
         /\ all_equal(Tail(ps), rs, olds)

\* Lines 272-280.
first_result_good(args, ps, rs, olds) ==
    IF args.bisect_output # <<>>
    THEN ~any_matches(SubSeq(ps, 1, 1), args.bisect_output, rs)
    ELSE all_equal(SubSeq(ps, 1, 1), rs, olds)
are_results_good(args, ps, rs, olds) ==
    IF args.bisect_output # <<>>
    THEN ~any_matches(ps, args.bisect_output, rs)
    ELSE all_equal(ps, rs, olds)

\* Line 282: assert are_results_good(old_results)
baseline_unchecked(args, ps, olds) == TRUE
baseline_assertion(args, ps, olds) == are_results_good(args, ps, olds, olds)

\* Line 292: "first bad commit" in proc.stdout
never_first_bad(report) == FALSE
first_bad_commit_in(report) == report.first_bad

\* Line 289.
verdict_swapped(good) == IF good THEN "bad" ELSE "good"
verdict(good) == IF good THEN "good" ELSE "bad"

(***************************************************************************)
(* git bisect on the linear history.  A git value holds the revision that  *)
(* is checked out and the boundaries it was told.                          *)
(***************************************************************************)
GitAt(new) == [new |-> new, head |-> OldRev, good |-> NoRev, bad |-> NoRev]

NoReport == [first_bad |-> FALSE, rev |-> NoRev, error |-> FALSE]
FirstBadReport(r) == [first_bad |-> TRUE, rev |-> r, error |-> FALSE]
ErrorReport == [first_bad |-> FALSE, rev |-> NoRev, error |-> TRUE]

\* git bisect start: old bisection state is cleaned up.
git_bisect_start(g) == [g EXCEPT !.good = NoRev, !.bad = NoRev]

\* What git does once it knows a boundary more: nothing while one is
\* missing; an error when the bad revision is not after the good one; the
\* 'first bad commit' report when one candidate is left; otherwise it checks
\* out a candidate that halves the interval.  The outcomes as pairs
\* <<git value, report>>.
git_bisect_next(g) ==
    IF g.good = NoRev \/ g.bad = NoRev THEN {<<g, NoReport>>}
    ELSE LET n == g.bad - g.good
         IN IF n <= 0 THEN {<<g, ErrorReport>>}
            ELSE IF n = 1 THEN {<<g, FirstBadReport(g.bad)>>}
            ELSE {<<[g EXCEPT !.head = m], NoReport>>
                    : m \in {g.good + (n \div 2), g.good + ((n + 1) \div 2)}}

\* git bisect good [rev] / git bisect bad [rev]; without rev it is HEAD.
git_bisect_good(g, rev) ==
    git_bisect_next([g EXCEPT !.good = IF rev > g.good THEN rev ELSE g.good])
git_bisect_bad(g, rev) ==
    git_bisect_next([g EXCEPT !.bad = rev])

git_bisect(g, st) ==
    IF st = "good" THEN git_bisect_good(g, g.head) ELSE git_bisect_bad(g, g.head)

(***************************************************************************)
(* The bisect coroutine.  hist records what the properties speak about:    *)
(*   first_bad    the revision that introduces the bad output              *)
(*   consistent   every verdict so far was good exactly before first_bad   *)
(*   steps        completed iterations of the loop                         *)
(*   answer       the revision named with the 'first bad commit' signal    *)
(*   raised       what ended the coroutine with an exception               *)
(***************************************************************************)
BisectArgs ==
    {[DefaultArgs EXCEPT !.bisect_output = pat] : pat \in {<<>>} \cup Patterns}
    \cup {[DefaultArgs EXCEPT !.new_typeshed = TRUE],
          [DefaultArgs EXCEPT !.old_typeshed = TRUE]}

BisectInit ==
    /\ \E m \in 0..MaxBisectProjects : corpus = PlainCorpus(m)
    /\ ARGS \in BisectArgs
    /\ ret = <<>>
    /\ projects = <<>>
    /\ PrimerIdle
    /\ DiagIdle
    /\ MainIdle
    /\ b_pc = "start"
    /\ runs = <<>> /\ old_results = <<>> /\ results = <<>>
    /\ state = ""
    /\ \E new \in (OldRev + 1)..MaxRevs, fb \in (OldRev + 1)..MaxRevs :
        /\ fb <= new
        /\ git = GitAt(new)
        /\ hist = [first_bad |-> fb, consistent |-> TRUE, steps |-> 0,
                   setup_failed |-> FALSE,
                   answer |-> NoRev, raised |-> ""]

Raise(what) ==
    /\ b_pc' = "raised"
    /\ hist' = [hist EXCEPT !.raised = what]

\* Lines 241-242: assert not ARGS.new_typeshed; assert not ARGS.old_typeshed
typeshed_assertions_new_only(args) == ~args.new_typeshed
typeshed_assertions(args) == ~args.new_typeshed /\ ~args.old_typeshed

\* Lines 239-248: the typeshed assertions, then setup_mypy is awaited.
BisectBegin ==
    /\ b_pc = "start"
    /\ IF ~typeshed_assertions(ARGS)
       THEN Raise("typeshed")
       ELSE b_pc' = "setup_mypy" /\ hist' = hist
    /\ UNCHANGED <<ARGS, corpus, ret, diagVars, proc, primerVars, projects, runs, old_results,
                   results, git, state>>

\* Lines 244-253: setup_mypy ends (the checkout is at the old revision),
\* the projects are selected and their setups are started.
BisectSelect ==
    /\ b_pc = "setup_mypy"
    /\ \E ok \in BOOLEAN :
        IF ~ok THEN Raise("setup_mypy") /\ projects' = projects
        ELSE LET r == select_projects(ARGS, corpus, 0)
             IN IF r.status = "returned"
                THEN /\ projects' = r.projects
                     /\ b_pc' = "setup_projects"
                     /\ hist' = hist
                ELSE Raise("select_projects") /\ projects' = projects
    /\ UNCHANGED <<ARGS, corpus, ret, diagVars, proc, primerVars, runs, old_results,
                   results, git, state>>

\* gather(*(run_wrapper(project) for project in projects)) starts a batch.
StartBatch == runs' = [k \in DOMAIN projects |-> RunRunning]

\* Lines 253-260: asyncio.wait returns when every setup has ended, whether
\* or not one of them failed (it keeps a task's exception in the task and
\* does not raise it); then the baseline batch starts.
BisectSetupProjects ==
    /\ b_pc = "setup_projects"
    /\ \E failed \in BOOLEAN : hist' = [hist EXCEPT !.setup_failed = failed]
    /\ b_pc' = "baseline"
    /\ StartBatch
    /\ UNCHANGED <<ARGS, corpus, ret, diagVars, proc, primerVars, projects, old_results,
                   results, git, state>>

\* A checker run of the current batch ends, with an output or a failure.
RunComplete(k) ==
    /\ b_pc \in {"baseline", "batch"}
    /\ k \in DOMAIN runs
    /\ runs[k] = RunRunning
    /\ \E r \in {MypyResult(o) : o \in CheckerOutputs} \cup {RunFailed} :
            runs' = [runs EXCEPT ![k] = r]
    /\ UNCHANGED <<ARGS, corpus, ret, diagVars, proc, primerVars, projects, b_pc, old_results,
                   results, git, state, hist>>

\* gather returns when every run of the batch has returned its result.
BatchDoneFirst == \E k \in DOMAIN runs : runs[k].st = "result"
BatchDone == \A k \in DOMAIN runs : runs[k].st = "result"
BatchFailed == \E k \in DOMAIN runs : runs[k].st = "failed"

\* gather raises the exception of a failed run.
BatchRaise ==
    /\ b_pc \in {"baseline", "batch"}
    /\ BatchFailed
    /\ Raise("run_mypy")
    /\ UNCHANGED <<ARGS, corpus, ret, diagVars, proc, primerVars, projects, runs, old_results,
                   results, git, state>>

\* Lines 260-267: the baseline batch is complete; git bisect start is run.
BaselineJoin ==
    /\ b_pc = "baseline"
    /\ BatchDone
    /\ old_results' = dict_of(projects, runs)
    /\ b_pc' = "bisect_start"
    /\ UNCHANGED <<ARGS, corpus, ret, diagVars, proc, primerVars, projects, runs, results,
                   git, state, hist>>

\* Lines 267-268.
GitStart ==
    /\ b_pc = "bisect_start"
    /\ git' = git_bisect_start(git)
    /\ b_pc' = "bisect_good"
    /\ UNCHANGED <<ARGS, corpus, ret, diagVars, proc, primerVars, projects, runs, old_results,
                   results, state, hist>>

\* Lines 268-269: git bisect good marks HEAD.
GitGood ==
    /\ b_pc = "bisect_good"
    /\ \E out \in git_bisect_good(git, git.head) : git' = out[1]
    /\ b_pc' = "bisect_bad"
    /\ UNCHANGED <<ARGS, corpus, ret, diagVars, proc, primerVars, projects, runs, old_results,
                   results, state, hist>>

\* Lines 269-285: the new revision is resolved and marked bad, which lets
\* git check out the first candidate; its report is not read.  Then the
\* baseline verdict is asserted and the loop is entered.
GitBad ==
    /\ b_pc = "bisect_bad"
    /\ \E out \in git_bisect_bad(git, git.new) :
        /\ git' = out[1]
        /\ IF out[2].error THEN Raise("git")
           ELSE IF ~baseline_assertion(ARGS, projects, old_results)
                THEN Raise("assert")
                ELSE b_pc' = "submodule" /\ hist' = hist
    /\ UNCHANGED <<ARGS, corpus, ret, diagVars, proc, primerVars, projects, runs, old_results,
                   results, state>>

\* Lines 285-286: git submodule update ends and the step's batch starts.
StepStart ==
    /\ b_pc = "submodule"
    /\ b_pc' = "batch"
    /\ StartBatch
    /\ UNCHANGED <<ARGS, corpus, ret, diagVars, proc, primerVars, projects, old_results,
                   results, git, state, hist>>

\* The batch of a step is good in the sense of the verdict policy.
TrulyGood(rs) ==
    IF ARGS.bisect_output # <<>>
    THEN \A k \in DOMAIN rs :
            ~re_search(ARGS.bisect_output, strip_colour_code(rs[k].output))
    ELSE \A k \in DOMAIN rs : rs[k].output = old_results[k].output

\* Lines 286-290: the step's batch is complete, the verdict is computed and
\* handed to git bisect.
StepJoin ==
    /\ b_pc = "batch"
    /\ BatchDone
    /\ results' = dict_of(projects, runs)
    /\ state' = verdict(are_results_good(ARGS, projects, results', old_results))
    /\ hist' = [hist EXCEPT
            !.consistent = @ /\ (TrulyGood(results') <=> git.head < hist.first_bad)]
    /\ b_pc' = "bisect_state"
    /\ UNCHANGED <<ARGS, corpus, ret, diagVars, proc, primerVars, projects, runs, old_results, git>>

\* Lines 290-299: git bisect <state> ends; the iteration is complete, and
\* bisect returns when the report has the 'first bad commit' signal.
StepReport ==
    /\ b_pc = "bisect_state"
    /\ \E out \in git_bisect(git, state) :
        /\ git' = out[1]
        /\ IF out[2].error THEN Raise("git")
           ELSE /\ b_pc' = IF first_bad_commit_in(out[2]) THEN "done" ELSE "submodule"
                /\ hist' = [hist EXCEPT
                      !.steps = @ + 1,
                      !.answer = IF out[2].first_bad THEN out[2].rev ELSE @]
    /\ UNCHANGED <<ARGS, corpus, ret, diagVars, proc, primerVars, projects, runs, old_results,
                   results, state>>

BisectNext ==
    \/ BisectBegin
    \/ BisectSelect
    \/ BisectSetupProjects
    \/ \E k \in 1..MaxBisectProjects : RunComplete(k)
    \/ BatchRaise
    \/ BaselineJoin
    \/ GitStart
    \/ GitGood
    \/ GitBad
    \/ StepStart
    \/ StepJoin
    \/ StepReport

SpecBisect == BisectInit /\ [][BisectNext]_vars

(***************************************************************************)
(* Properties of bisect.                                                   *)
(***************************************************************************)
Names == {project_name(projects[k]) : k \in DOMAIN projects}

Matched(rs, n) == re_search(ARGS.bisect_output, strip_colour_code(rs[n].output))
SameAsBaseline(rs, n) == rs[n].output = old_results[n].output

InLoop == b_pc \in {"submodule", "batch", "bisect_state"}

\* C5: the verdict of a step is good iff every project's output equals its
\* baseline output (equivalence policy), respectively iff no project's
\* stripped output contains the pattern (pattern policy); and it is the same
\* for every ordering of the project list.
C5_AggregateVerdict ==
    b_pc = "bisect_state" =>
        /\ state \in {"good", "bad"}
        /\ ARGS.bisect_output = <<>>
                => (state = "good" <=> \A n \in Names : SameAsBaseline(results, n))
        /\ ARGS.bisect_output # <<>>
                => (state = "good" <=> \A n \in Names : ~Matched(results, n))
        /\ \A order \in Perms(Range(projects)) :
                verdict(are_results_good(ARGS, order, results, old_results)) = state

\* A step whose verdict is bad because of the second project alone.
C5_Witness ==
    /\ b_pc = "bisect_state"
    /\ Len(projects) = 2
    /\ state = "bad"
    /\ ARGS.bisect_output = <<>>
    /\ SameAsBaseline(results, project_name(projects[1]))
    /\ ~SameAsBaseline(results, project_name(projects[2]))

\* C6: under the equivalence policy the verdict of a step is good iff every
\* project's output is identical to its baseline output after stripping the
\* colour codes.
C6_EquivalenceIgnoresStyling ==
    (b_pc = "bisect_state" /\ ARGS.bisect_output = <<>>) =>
        (state = "good" <=>
            \A n \in Names : strip_colour_code(results[n].output)
                                = strip_colour_code(old_results[n].output))

BaselineCaptured == old_results # <<>>

\* C7 as stated: whichever the policy, are_results_good is good on the
\* baseline results and the assertion on the baseline does not fail.
C7_AsStated ==
    BaselineCaptured =>
        /\ are_results_good(ARGS, projects, old_results, old_results)
        /\ hist.raised # "assert"

\* C7: under the equivalence policy are_results_good is good on the
\* baseline results and the assertion cannot fail; under the pattern policy
\* it is good iff no baseline output contains the pattern, and the assertion
\* fails only when one does.
C7_OracleIdempotence ==
    BaselineCaptured =>
        /\ ARGS.bisect_output = <<>>
                => /\ are_results_good(ARGS, projects, old_results, old_results)
                   /\ hist.raised # "assert"
        /\ ARGS.bisect_output # <<>>
                => /\ are_results_good(ARGS, projects, old_results, old_results)
                        <=> \A n \in Names : ~Matched(old_results, n)
                   /\ hist.raised = "assert" => \E n \in Names : Matched(old_results, n)

\* The assertion passed on a coloured baseline under the equivalence policy.
C7_Witness ==
    /\ b_pc = "submodule"
    /\ hist.steps = 0
    /\ ARGS.bisect_output = <<>>
    /\ \E n \in Names : old_results[n].output = <<Colour, "error">>

\* C8: when every verdict so far was good exactly for the revisions before
\* the first bad one, the first bad revision lies in (good, bad] from the
\* moment git knows both boundaries, git never fails, and the revision
\* named with the 'first bad commit' signal is the first bad revision.
C8_BisectionInvariant ==
    hist.consistent =>
        /\ (InLoop \/ b_pc = "done")
                => (git.good < hist.first_bad /\ hist.first_bad <= git.bad)
        /\ hist.raised # "git"
        /\ b_pc = "done" => hist.answer = hist.first_bad

\* A search over the longest history that ended on an inner revision.
C8_Witness ==
    /\ b_pc = "done"
    /\ hist.consistent
    /\ git.new = MaxRevs
    /\ hist.answer = hist.first_bad
    /\ hist.answer = OldRev + 1

RECURSIVE CeilLog2From(_, _, _)
CeilLog2From(n, k, pow) == IF pow >= n THEN k ELSE CeilLog2From(n, k + 1, 2 * pow)
\* The least k with 2^k >= n.
CeilLog2(n) == CeilLog2From(n, 0, 1)

IntervalSize == git.bad - git.good
InitialSize == git.new - OldRev

\* C9 as stated: bisect returns after at most ceil(log2(interval size))
\* steps.
C9_AsStated == b_pc = "done" => hist.steps <= CeilLog2(InitialSize)

StepCompletes == hist'.steps = hist.steps + 1

\* C9: every completed iteration reports one verdict; it strictly shrinks
\* the interval when the interval has at least two candidates, and leaves
\* a one-candidate interval as it is and returns.  An iteration starts only
\* while fewer than max(1, ceil(log2(initial size))) steps are complete, so
\* the loop ends within that many steps.  For the 4-revision history whose
\* revision 3 is first bad, the interval has 2 candidates after step 1 and
\* revision 3 is reported after step 2.
C9_Narrowing ==
    /\ [](InLoop => hist.steps < (IF InitialSize = 1 THEN 1 ELSE CeilLog2(InitialSize)))
    /\ [][StepCompletes =>
            /\ b_pc = "bisect_state" /\ state \in {"good", "bad"}
            /\ IF IntervalSize >= 2
               THEN git'.bad - git'.good < IntervalSize /\ git'.bad - git'.good >= 1
               ELSE git'.bad - git'.good = IntervalSize /\ b_pc' = "done"]_vars
    /\ []((git.new = 4 /\ hist.first_bad = 3 /\ hist.consistent) =>
            /\ (InLoop /\ hist.steps = 1) => IntervalSize = 2
            /\ b_pc = "done" => (hist.steps = 2 /\ hist.answer = 3))

\* The 4-revision history, revision 3 reported after two steps.
C9_Witness ==
    /\ b_pc = "done"
    /\ git.new = 4
    /\ hist.first_bad = 3
    /\ hist.consistent
    /\ hist.steps = 2
    /\ hist.answer = 3

\* C10 as stated: when the baseline verdict is not good, no boundary has
\* been reported to git, the checkout is still at the old revision and no
\* step has run.
C10_AsStated ==
    hist.raised = "assert" =>
        /\ git.good = NoRev /\ git.bad = NoRev
        /\ git.head = OldRev
        /\ hist.steps = 0

BaselineGood ==
    IF ARGS.bisect_output # <<>>
    THEN \A n \in Names : ~Matched(old_results, n)
    ELSE TRUE

\* C10: the loop is entered only when the baseline verdict is good; when it
\* is not good the assertion fails before any step: no candidate batch has
\* run and no step verdict was computed or reported.  Both boundaries have
\* been reported to git by then.
C10_UpFrontVerification ==
    /\ (InLoop \/ b_pc = "done" \/ hist.steps > 0 \/ state # "" \/ results # <<>>)
            => BaselineGood
    /\ hist.raised = "assert" =>
            /\ ~BaselineGood
            /\ hist.steps = 0 /\ state = "" /\ results = <<>>
            /\ git.good = OldRev /\ git.bad = git.new

\* The assertion failed after git had moved the checkout to a candidate.
C10_Witness ==
    /\ hist.raised = "assert"
    /\ git.head # OldRev
    /\ git.bad = git.new

\* C14 as stated: when the setup of a selected project failed, bisect has
\* raised, no batch was started, no baseline exists and no verdict was
\* computed or handed to git bisect.
C14_AbortsOnSetupFailure ==
    hist.setup_failed =>
        /\ b_pc = "raised"
        /\ runs = <<>>
        /\ old_results = <<>>
        /\ state = ""
        /\ git.good = NoRev /\ git.bad = NoRev

\* C15: with a new or old typeshed revision configured, bisect fails its
\* assertion and does nothing else: the checker is not set up, no project is
\* selected or set up, no batch is run and git bisect gets no command.
C15_TypeshedExcluded ==
    (ARGS.new_typeshed \/ ARGS.old_typeshed) =>
        /\ b_pc \in {"start", "raised"}
        /\ b_pc = "raised" => hist.raised = "typeshed"
        /\ projects = <<>>
        /\ ~hist.setup_failed
        /\ runs = <<>> /\ old_results = <<>> /\ results = <<>>
        /\ state = ""
        /\ git = GitAt(git.new)
        /\ hist.steps = 0

\* bisect was started with --old-typeshed and the assertion has failed.
C15_Witness ==
    /\ ARGS.old_typeshed
    /\ corpus # <<>>
    /\ b_pc = "raised"
    /\ hist.raised = "typeshed"

NoRunRunning == \A k \in DOMAIN runs : runs[k] # RunRunning
RunStarts ==
    \E k \in DOMAIN runs' :
        runs'[k] = RunRunning /\ (k \in DOMAIN runs => runs[k] # RunRunning)

\* C16: the runs of a step start when its submodule update has ended, and
\* all together; the checkout is never changed while a run is in progress;
\* the verdict is computed from one finished result per project; git bisect
\* is told the verdict computed in this step before it moves the checkout;
\* and the runs of the next step start only after that report, so runs
\* overlap only within one batch.
C16_StepSequencing ==
    /\ [](b_pc \in {"submodule", "bisect_state", "bisect_start", "bisect_good",
                    "bisect_bad", "done"} => NoRunRunning)
    /\ [][git' # git => NoRunRunning /\ NoRunRunning']_vars
    /\ [][(RunStarts /\ b_pc # "setup_projects")
            => /\ b_pc = "submodule" /\ b_pc' = "batch"
               /\ git' = git
               /\ NoRunRunning
               /\ runs' = [k \in DOMAIN projects |-> RunRunning]]_vars
    /\ [][(state' # state \/ results' # results)
            => /\ b_pc = "batch" /\ b_pc' = "bisect_state"
               /\ \A k \in DOMAIN runs : runs[k].st = "result"
               /\ DOMAIN results' = Names
               /\ \A k \in DOMAIN projects :
                    results'[project_name(projects[k])].output = runs[k].output
               /\ git' = git]_vars
    /\ [][(InLoop /\ git' # git)
            => /\ b_pc = "bisect_state"
               /\ git' \in {out[1] : out \in git_bisect(git, state)}
               /\ runs' = runs]_vars
    /\ [][(b_pc = "bisect_state" /\ b_pc' = "submodule")
            => hist'.steps = hist.steps + 1]_vars

\* In the second step one project's run has ended and the other is still
\* in progress.
C16_Witness ==
    /\ b_pc = "batch"
    /\ hist.steps = 1
    /\ Len(runs) = 2
    /\ runs[1] = RunRunning
    /\ runs[2].st = "result"

(***************************************************************************)
(* SpecShardOrder: select_projects over project lists given in location    *)
(* order, every cost assignment; the properties range over the             *)
(* permutations of the list themselves.                                    *)
(***************************************************************************)
Ascending(S) == CHOOSE o \in Perms(S) : \A i, j \in DOMAIN o : i < j => o[i] < o[j]

ListedCorpus(c) ==
    \E S \in SUBSET Locations : \E cost \in [S -> Costs] :
        c = OrderedBy(Ascending(S), cost, [l \in S |-> TRUE])

ShardOrderInit ==
    /\ ListedCorpus(corpus)
    /\ ARGS \in ShardArgs
    /\ ret = [i \in ShardIndexes(ARGS) |-> NotCalled]
    /\ projects = <<>>
    /\ PrimerIdle
    /\ BisectIdle
    /\ DiagIdle
    /\ MainIdle

SpecShardOrder == ShardOrderInit /\ [][ShardNext]_vars

\* The project of the greatest key (cost, location) in a set of projects of
\* pairwise distinct locations.
MaxKey(S) == CHOOSE p \in S : \A q \in S : q = p \/ KeyLess(q, p)

\* The shard of least accumulated cost, the lowest index among equals.
LeastLoaded(loads) ==
    CHOOSE i \in DOMAIN loads :
        \A j \in DOMAIN loads :
            loads[i] < loads[j] \/ (loads[i] = loads[j] /\ i <= j)

\* The greedy assignment told from the set of projects alone: the project
\* of the greatest key goes to the least loaded shard, and so on.
RECURSIVE GreedyFrom(_, _, _)
GreedyFrom(S, loads, shards) ==
    IF S = {} THEN shards
    ELSE LET p == MaxKey(S)
             i == LeastLoaded(loads)
         IN GreedyFrom(S \ {p}, [loads EXCEPT ![i] = @ + p.cost],
                       [shards EXCEPT ![i] = Append(@, p)])

Greedy(S, n) ==
    GreedyFrom(S, [i \in 0..(n - 1) |-> 0], [i \in 0..(n - 1) |-> <<>>])

CostsOf(ps) == [k \in DOMAIN ps |-> ps[k].cost]

\* The lists returned, by shard_index.
ReturnedLists == [i \in DOMAIN ret |-> ret[i].projects]

\* C17: the list returned for each shard_index is the one the greedy rule
\* gives for the set of selected projects (greatest (cost, location) first,
\* to the least loaded shard, lowest index among equals); so it is the same
\* for every permutation of the project list; and projects of costs 5, 3
\* and 2 with N = 2 give the shards [5] and [3, 2], of total cost 5 each.
C17_GreedyDeterminism ==
    (AllShardsReturned /\ Selected # <<>>) =>
        /\ ReturnedLists = Greedy(Range(Selected), ARGS.num_shards)
        /\ LET sel == Selected
           IN \A f \in Permutations(DOMAIN sel) :
                shard_all([k \in DOMAIN sel |-> sel[f[k]]], ARGS.num_shards)
                    = ReturnedLists
        /\ (ARGS.num_shards = 2 /\ CostsOf(sorted_projects(Selected)) = <<5, 3, 2>>)
                => /\ CostsOf(ret[0].projects) = <<5>>
                   /\ CostsOf(ret[1].projects) = <<3, 2>>
                   /\ ShardCosts[0] = 5 /\ ShardCosts[1] = 5

\* The scenario, from a project list that is not in sorted order.
C17_Witness ==
    /\ AllShardsReturned
    /\ ARGS.num_shards = 2
    /\ CostsOf(corpus) = <<2, 5, 3>>
    /\ CostsOf(ret[0].projects) = <<5>>
    /\ CostsOf(ret[1].projects) = <<3, 2>>

(***************************************************************************)
(* Properties of primer: faults and the old_success filter.                *)
(***************************************************************************)
\* The projects of the results consumed before the last one, in order.
ConsumedBefore == SubSeq(consumed, 1, Len(consumed) - 1)

IsSkipped(k) ==
    tasks[k].st = "result" /\ ARGS.old_success /\ ~tasks[k].old_success

Unskipped(s) == SelectSeq(s, LAMBDA k : tasks[k].st = "result" /\ ~IsSkipped(k))

\* C18: when the task the loop consumes has failed, primer raises at once;
\* the results consumed before it were reported (printed unless skipped, in
\* the full and diff formats), nothing is reported afterwards and primer
\* never returns; and primer cancels no task: a task that is still running
\* stays able to finish.
C18_FailFast ==
    /\ []((p_pc = "raised" /\ tasks # <<>>)
            => /\ tasks[consumed[Len(consumed)]] = Failed
               /\ \A i \in DOMAIN ConsumedBefore :
                    tasks[ConsumedBefore[i]].st = "result"
               /\ ARGS.output \in {"full", "diff"}
                    => printed = Unskipped(ConsumedBefore)
               /\ Range(printed) \subseteq Range(ConsumedBefore)
               /\ \A k \in DOMAIN tasks :
                    tasks[k] = Running => ENABLED TaskComplete(k))
    /\ [](\A k \in DOMAIN tasks : tasks[k] # Cancelled)
    /\ [][(consumed' # consumed /\ tasks[Head(completed)] = Failed)
            => p_pc' = "raised"]_vars
    /\ [][p_pc = "raised"
            => /\ p_pc' = "raised"
               /\ consumed' = consumed
               /\ printed' = printed
               /\ retcode' = retcode]_vars

\* The second result consumed is a failure: the first was printed, the
\* third task is still running.
C18_Witness ==
    /\ p_pc = "raised"
    /\ Len(tasks) = 3
    /\ consumed = <<2, 1>>
    /\ tasks[1] = Failed
    /\ printed = <<2>>
    /\ tasks[3] = Running

\* C20: with old_success set, a result whose old run did not succeed is
\* neither printed nor changes retcode, so primer returns 1 iff some result
\* that is not skipped has a diff; without old_success every result counts:
\* in the full and diff formats every consumed result is printed, and a
\* consumed diff makes retcode 1.
C20_OldSuccessFilter ==
    /\ [](\A i \in DOMAIN printed : ~IsSkipped(printed[i]))
    /\ [][(consumed' # consumed /\ IsSkipped(Head(completed)))
            => printed' = printed /\ retcode' = retcode]_vars
    /\ [](p_pc = "done" => (retcode = 1 <=> \E k \in Reported : tasks[k].diff))
    /\ [](~ARGS.old_success
            => /\ \A k \in DOMAIN tasks : ~IsSkipped(k)
               /\ ARGS.output \in {"full", "diff"}
                    => printed = SelectSeq(consumed, LAMBDA k : tasks[k].st = "result")
               /\ (\E i \in DOMAIN consumed :
                        tasks[consumed[i]].st = "result" /\ tasks[consumed[i]].diff)
                    => retcode = 1)

\* primer returned 0: the one result with a diff was skipped, another
\* result was printed.
C20_Witness ==
    /\ p_pc = "done"
    /\ ARGS.old_success
    /\ retcode = 0
    /\ Len(printed) >= 1
    /\ \E k \in DOMAIN tasks :
            tasks[k].diff /\ IsSkipped(k) /\ k \notin Range(printed)

(***************************************************************************)
(* SpecDiag: validate_expected_success (lines 178-211),                    *)
(* measure_project_runtimes (214-229) and coverage (302-325).  Each sets   *)
(* up a checker, selects the projects and gathers one task per project.    *)
(***************************************************************************)
RECENT_MYPYS == <<"0.991", "0.982", "0.971", "0.961">>

\* Lines 386-395: the coroutine main runs for the options.
coro_of(args) ==
    IF args.coverage THEN "coverage"
    ELSE IF args.bisect \/ args.bisect_output # <<>> THEN "bisect"
    ELSE IF args.validate_expected_success THEN "validate_expected_success"
    ELSE IF args.measure_project_runtimes THEN "measure_project_runtimes"
    ELSE "primer"

Runtimes == 1..MaxRuntime

\* A task of the gather: an `inner(project)` coroutine, or in coverage a
\* project.source_paths call.
\*   st      "setup": awaiting project.setup(); "run": awaiting a checker
\*           run or source_paths; "returned"; "failed": it raised
\*   probes  mypy_result.success of each run so far, in order
\*   success index in RECENT_MYPYS of the executable that succeeded, or None
\*   ret     the value returned
\*   fault   the call that raised
InnerTask(st) ==
    [st |-> st, probes |-> <<>>, success |-> None, ret |-> None, fault |-> ""]

NoDiagnostic == "None"
NotMarked == "succeeded, but is not marked as expecting success"
DidNotSucceed == "did not succeed, but is marked as expecting success"

\* Lines 199-206: the value inner returns.
diagnostic(success, expected_success) ==
    IF success # None /\ ~expected_success THEN NotMarked
    ELSE IF success = None /\ expected_success THEN DidNotSucceed
    ELSE NoDiagnostic

\* Lines 196-198: the probing loop is left at a success.
never_breaks(mypy_result_success) == FALSE
loop_breaks(mypy_result_success) == mypy_result_success

\* Project values compared by sorted() when two runtimes are equal.
ProjectLess(p, q) == p.location < q.location

\* Whether pair a goes before pair b: sorted(results, reverse=True) over
\* (runtime, project) pairs in measure_project_runtimes, and
\* sorted(projects, key=lines, reverse=True) in coverage, which is stable.
TimeSortsBefore(mode, a, b) ==
    \/ a[1] > b[1]
    \/ /\ mode = "measure_project_runtimes"
       /\ a[1] = b[1]
       /\ ProjectLess(b[2], a[2])

RECURSIVE InsertTimed(_, _, _)
InsertTimed(mode, s, a) ==
    IF s = <<>> THEN <<a>>
    ELSE IF TimeSortsBefore(mode, a, s[1]) THEN <<a>> \o s
         ELSE <<s[1]>> \o InsertTimed(mode, Tail(s), a)

RECURSIVE sorted_timed(_, _)
sorted_timed(mode, s) ==
    IF s = <<>> THEN <<>>
    ELSE InsertTimed(mode, sorted_timed(mode, SubSeq(s, 1, Len(s) - 1)), s[Len(s)])

\* Lines 209-211, 228-229 and 318-320: the lines printed per project (the
\* three totals of coverage are left out).
printed_lines(mode, ps, ts) ==
    IF mode = "validate_expected_success"
    THEN LET all == [k \in DOMAIN ps |-> <<ps[k].location, ts[k].ret>>]
         IN SelectSeq(all, LAMBDA r : r[2] # NoDiagnostic)
    ELSE LET timed == sorted_timed(mode, [k \in DOMAIN ps |-> <<ts[k].ret, ps[k]>>])
         IN [k \in DOMAIN timed |-> <<timed[k][2].location, timed[k][1]>>]

\* The corpora of the diagnostic passes: projects in location order, with
\* every marking of expected_success.
MarkedCorpus(c) ==
    \E m \in 0..MaxDiagProjects : \E exp \in [1..m -> BOOLEAN] :
        c = [k \in 1..m |-> Project(k, 1, exp[k])]

DiagArgs ==
    {[DefaultArgs EXCEPT !.validate_expected_success = TRUE],
     [DefaultArgs EXCEPT !.measure_project_runtimes = TRUE],
     [DefaultArgs EXCEPT !.coverage = TRUE]}

DiagInit ==
    /\ MarkedCorpus(corpus)
    /\ ARGS \in DiagArgs
    /\ ret = <<>>
    /\ projects = <<>>
    /\ PrimerIdle
    /\ BisectIdle
    /\ MainIdle
    /\ d_pc = "start"
    /\ inners = <<>>
    /\ d_printed = <<>>

\* Lines 180-185, 216-218 and 303: the coroutine starts with the set-up of
\* its checker (of the four recent checkers in validate_expected_success).
DiagBegin ==
    /\ d_pc = "start"
    /\ d_pc' = "setup_mypy"
    /\ UNCHANGED <<ARGS, corpus, ret, primerVars, bisectVars, projects, inners,
                   d_printed, proc>>

\* Lines 185-208, 218-226 and 303-311: the set-up ends, with an exception
\* or with the executables; then select_projects is called; coverage then
\* asserts that the checker's python exists; then the gather starts one
\* task per project.
DiagSelect ==
    /\ d_pc = "setup_mypy"
    /\ \E ok \in BOOLEAN, python_exists \in BOOLEAN :
        LET r == select_projects(ARGS, corpus, 0)
        IN IF ~ok \/ r.status # "returned"
                \/ (coro_of(ARGS) = "coverage" /\ ~python_exists)
           THEN d_pc' = "raised" /\ UNCHANGED <<projects, inners>>
           ELSE /\ projects' = r.projects
                /\ inners' = [k \in DOMAIN r.projects |->
                        InnerTask(IF coro_of(ARGS) = "coverage" THEN "run" ELSE "setup")]
                /\ d_pc' = "gather"
    /\ UNCHANGED <<ARGS, corpus, ret, primerVars, bisectVars, d_printed, proc>>

\* The tasks of a gather run while the coroutine awaits it; they are not
\* cancelled when it raises, and end with the event loop.
InnerEnabled(k) ==
    /\ d_pc \in {"gather", "raised"}
    /\ EventLoopRunning
    /\ k \in DOMAIN inners

\* Lines 188 and 221: await project.setup() ends, or raises.
InnerSetup(k) ==
    /\ InnerEnabled(k)
    /\ inners[k].st = "setup"
    /\ \E ok \in BOOLEAN :
        inners' = [inners EXCEPT ![k] =
            IF ok THEN [@ EXCEPT !.st = "run"]
            ELSE [@ EXCEPT !.st = "failed", !.fault = "setup"]]
    /\ UNCHANGED <<ARGS, corpus, ret, primerVars, bisectVars, projects, d_pc,
                   d_printed, proc>>

\* Lines 190-206: one run of the probing loop of validate_expected_success
\* ends: the run of the next executable of the list; and when the loop is
\* left, inner returns its diagnostic.
InnerProbe(k) ==
    /\ InnerEnabled(k)
    /\ coro_of(ARGS) = "validate_expected_success"
    /\ inners[k].st = "run"
    /\ \E raises \in BOOLEAN, mypy_result_success \in BOOLEAN :
        LET t == inners[k]
            probes == Append(t.probes, mypy_result_success)
            success == IF mypy_result_success THEN Len(probes) ELSE t.success
        IN inners' = [inners EXCEPT ![k] =
            IF raises THEN [t EXCEPT !.st = "failed", !.fault = "run_mypy"]
            ELSE IF loop_breaks(mypy_result_success) \/ Len(probes) = Len(RECENT_MYPYS)
                 THEN [t EXCEPT !.st = "returned", !.probes = probes,
                          !.success = success,
                          !.ret = diagnostic(success, projects[k].expected_success)]
                 ELSE [t EXCEPT !.probes = probes, !.success = success]]
    /\ UNCHANGED <<ARGS, corpus, ret, primerVars, bisectVars, projects, d_pc,
                   d_printed, proc>>

\* Lines 222-223 and 309-311: the run of measure_project_runtimes, or the
\* source_paths call of coverage, ends with a number, or raises.
InnerRun(k) ==
    /\ InnerEnabled(k)
    /\ coro_of(ARGS) \in {"measure_project_runtimes", "coverage"}
    /\ inners[k].st = "run"
    /\ \/ \E n \in Runtimes :
            inners' = [inners EXCEPT ![k] = [@ EXCEPT !.st = "returned", !.ret = n]]
       \/ inners' = [inners EXCEPT ![k] =
            [@ EXCEPT !.st = "failed",
                      !.fault = IF coro_of(ARGS) = "coverage"
                                THEN "source_paths" ELSE "run_mypy"]]
    /\ UNCHANGED <<ARGS, corpus, ret, primerVars, bisectVars, projects, d_pc,
                   d_printed, proc>>

\* gather raises the exception of a task that raised.
DiagRaise ==
    /\ d_pc = "gather"
    /\ \E k \in DOMAIN inners : inners[k].st = "failed"
    /\ d_pc' = "raised"
    /\ UNCHANGED <<ARGS, corpus, ret, primerVars, bisectVars, projects, inners,
                   d_printed, proc>>

\* gather returns the values of all tasks; the coroutine prints and returns.
DiagJoin ==
    /\ d_pc = "gather"
    /\ \A k \in DOMAIN inners : inners[k].st = "returned"
    /\ d_printed' = printed_lines(coro_of(ARGS), projects, inners)
    /\ d_pc' = "done"
    /\ UNCHANGED <<ARGS, corpus, ret, primerVars, bisectVars, projects, inners,
                   proc>>

DiagNext ==
    \/ DiagBegin
    \/ DiagSelect
    \/ \E k \in 1..MaxDiagProjects : InnerSetup(k)
    \/ \E k \in 1..MaxDiagProjects : InnerProbe(k)
    \/ \E k \in 1..MaxDiagProjects : InnerRun(k)
    \/ DiagRaise
    \/ DiagJoin

SpecDiag == DiagInit /\ [][DiagNext]_vars

(***************************************************************************)
(* Properties of the diagnostic passes.                                    *)
(***************************************************************************)
SetupFailed(k) == inners[k].st = "failed" /\ inners[k].fault = "setup"

\* C13 as stated: in validate_expected_success and measure_project_runtimes
\* the failed setup of a project does not make the coroutine raise; the
\* project ends with a diagnostic of its own, and once every other task has
\* returned the results are printed.
C13_FaultIsolation ==
    coro_of(ARGS) \in {"validate_expected_success", "measure_project_runtimes"} =>
        \A k \in DOMAIN inners :
            SetupFailed(k) =>
                /\ d_pc # "raised"
                /\ (\A j \in DOMAIN inners \ {k} : inners[j].st = "returned")
                        => ENABLED DiagJoin

Succeeded(t) == t.success # None

\* C19: in validate_expected_success the executables are run one at a time
\* in the order of RECENT_MYPYS; a run follows only runs that did not
\* succeed, so probing stops at the first success; a project that returned
\* is classified as succeeded iff one of its runs succeeded, and when none
\* did every executable was tried; its diagnostic is there iff the
\* classification differs from expected_success, and the diagnostics are
\* what is printed.
C19_KnownSuccessProbing ==
    coro_of(ARGS) = "validate_expected_success" =>
        /\ \A k \in DOMAIN inners :
            LET t == inners[k]
                n == Len(t.probes)
            IN /\ n <= Len(RECENT_MYPYS)
               /\ \A i \in 1..(n - 1) : ~t.probes[i]
               /\ t.st # "returned" => \A i \in 1..n : ~t.probes[i]
               /\ t.st = "returned" =>
                    /\ n >= 1
                    /\ Succeeded(t) <=> \E i \in 1..n : t.probes[i]
                    /\ Succeeded(t) => t.success = n /\ t.probes[n]
                    /\ ~Succeeded(t) => n = Len(RECENT_MYPYS)
                    /\ (t.ret # NoDiagnostic)
                            <=> (Succeeded(t) # projects[k].expected_success)
                    /\ t.ret = NotMarked => Succeeded(t)
                    /\ t.ret = DidNotSucceed => ~Succeeded(t)
        /\ d_pc = "done" =>
                Range(d_printed) =
                    {<<projects[k].location, inners[k].ret>> :
                        k \in {j \in DOMAIN inners : inners[j].ret # NoDiagnostic}}

\* A project not marked as expecting success succeeded with the third
\* executable; the other project agrees with its marking.
C19_Witness ==
    /\ coro_of(ARGS) = "validate_expected_success"
    /\ d_pc = "done"
    /\ Len(inners) = 2
    /\ inners[1].probes = <<FALSE, FALSE, TRUE>>
    /\ inners[1].ret = NotMarked
    /\ inners[2].probes = <<TRUE>>
    /\ d_printed = <<<<1, NotMarked>>>>

(***************************************************************************)
(* SpecMain: main, lines 370-409, from sys.argv to the end of the process, *)
(* with the coroutine of the selected mode run by the actions above.       *)
(* proc holds                                                              *)
(*   pc         "start", "running" (inside asyncio.run), "exited" (main    *)
(*              reached sys.exit), "propagated" (an exception left main)   *)
(*   base_dir   whether ARGS.base_dir exists                               *)
(*   exit_code  the status given to sys.exit                               *)
(*   traces     how often traceback.print_exc was called                   *)
(*   raised     the exception that ended inner(), by where it was raised   *)
(***************************************************************************)
ExitFault == 70

\* sys.exit(retcode): None is status 0.
sys_exit(rc) == IF rc = None THEN 0 ELSE rc

\* Line 405: `except Exception` catches instances of Exception only; a
\* SystemExit or KeyboardInterrupt is a BaseException and is not caught.
catches(exception) == exception \notin {"SystemExit", "KeyboardInterrupt"}

\* Lines 397-401: the finally clause runs however asyncio.run ended.
finally_skipped_on_raise(raised) == ~raised
finally_runs(raised) == TRUE

\* Lines 378-379 and 400-401: shutil.rmtree (taken to succeed).
after_rmtree(args, exists) == IF exists /\ args.clear THEN FALSE ELSE exists

\* globals.parse_options_and_set_ctx: the options are accepted, or the
\* call raises an exception, or argparse ends the process for an invalid
\* command line by raising SystemExit.
parse_options_and_set_ctx == {"ok", "ParseError", "SystemExit"}

MainArgs ==
    {[a EXCEPT !.clear = c] :
        c \in BOOLEAN,
        a \in DiagArgs
            \cup {DefaultArgs}
            \cup {[DefaultArgs EXCEPT !.bisect = TRUE],
                  [DefaultArgs EXCEPT !.bisect_output = <<"error">>],
                  [DefaultArgs EXCEPT !.bisect = TRUE, !.new_typeshed = TRUE]}}

MainInit ==
    /\ \E m \in 0..MaxDiagProjects : corpus = PlainCorpus(m)
    /\ ARGS \in MainArgs
    /\ ret = <<>>
    /\ projects = <<>>
    /\ PrimerIdle
    /\ DiagIdle
    /\ b_pc = "idle"
    /\ runs = <<>> /\ old_results = <<>> /\ results = <<>>
    /\ state = ""
    /\ IF coro_of(ARGS) = "bisect"
       THEN \E new \in (OldRev + 1)..MaxMainRevs :
                /\ git = GitAt(new)
                /\ hist = [first_bad |-> new, consistent |-> TRUE, steps |-> 0,
                           setup_failed |-> FALSE,
                           answer |-> NoRev, raised |-> ""]
       ELSE git = <<>> /\ hist = <<>>
    /\ \E exists \in BOOLEAN : proc = [NoProc EXCEPT !.pc = "start", !.base_dir = exists]

\* The exception leaves inner(): it is caught at line 405, printed, and the
\* process exits with 70; or it is not caught and leaves main.
Leave(p, exception) ==
    IF catches(exception)
    THEN [p EXCEPT !.pc = "exited", !.raised = exception,
                   !.traces = @ + 1, !.exit_code = sys_exit(ExitFault)]
    ELSE [p EXCEPT !.pc = "propagated", !.raised = exception]

\* The coroutine starts: asyncio.run runs it up to its first await.
StartCoroutine ==
    /\ p_pc' = IF coro_of(ARGS) = "primer" THEN "select_projects" ELSE p_pc
    /\ b_pc' = IF coro_of(ARGS) = "bisect" THEN "start" ELSE b_pc
    /\ d_pc' = IF coro_of(ARGS) \notin {"primer", "bisect"} THEN "start" ELSE d_pc

\* Lines 376-397: the options are parsed (an invalid option ends in an
\* exception or in argparse's SystemExit), the base directory is cleared
\* and made (mkdir can fail), and asyncio.run starts the coroutine.
MainBegin ==
    /\ proc.pc = "start"
    /\ \E parsed \in parse_options_and_set_ctx, made \in BOOLEAN :
        IF parsed # "ok"
        THEN /\ proc' = Leave(proc, parsed)
             /\ UNCHANGED <<p_pc, b_pc, d_pc>>
        ELSE LET cleared == [proc EXCEPT !.base_dir = after_rmtree(ARGS, @)]
             IN IF ~made
                THEN /\ proc' = Leave(cleared, "OSError")
                     /\ UNCHANGED <<p_pc, b_pc, d_pc>>
                ELSE /\ proc' = [cleared EXCEPT !.pc = "running", !.base_dir = TRUE]
                     /\ StartCoroutine
    /\ UNCHANGED <<ARGS, corpus, ret, projects, tasks, completed, consumed,
                   printed, retcode, runs, old_results, results, git, state,
                   hist, inners, d_printed>>

CoroPc ==
    IF coro_of(ARGS) = "primer" THEN p_pc
    ELSE IF coro_of(ARGS) = "bisect" THEN b_pc
    ELSE d_pc

\* Lines 397-409: asyncio.run ends with the value the coroutine returned or
\* with the exception it raised; the finally clause clears the base
\* directory; then sys.exit(retcode), or the exception is caught.
MainFinish ==
    /\ proc.pc = "running"
    /\ CoroPc \in {"done", "raised"}
    /\ LET raised == CoroPc = "raised"
           swept == IF finally_runs(raised)
                    THEN [proc EXCEPT !.base_dir = after_rmtree(ARGS, @)]
                    ELSE proc
       IN proc' = IF raised
                  THEN Leave(swept, "Exception")
                  ELSE [swept EXCEPT
                          !.pc = "exited",
                          !.exit_code = sys_exit(IF coro_of(ARGS) = "primer"
                                                 THEN retcode ELSE None)]
    /\ UNCHANGED <<ARGS, corpus, ret, projects, primerVars, bisectVars, diagVars>>

\* The user interrupts the run: asyncio.run cancels the coroutine and
\* raises KeyboardInterrupt, the finally clause runs, and the exception
\* leaves main.
MainInterrupt ==
    /\ proc.pc = "running"
    /\ CoroPc \notin {"done", "raised"}
    /\ p_pc' = IF coro_of(ARGS) = "primer" THEN "raised" ELSE p_pc
    /\ b_pc' = IF coro_of(ARGS) = "bisect" THEN "raised" ELSE b_pc
    /\ d_pc' = IF coro_of(ARGS) \notin {"primer", "bisect"} THEN "raised" ELSE d_pc
    /\ hist' = IF coro_of(ARGS) = "bisect"
               THEN [hist EXCEPT !.raised = "cancelled"] ELSE hist
    /\ LET swept == IF finally_runs(TRUE)
                    THEN [proc EXCEPT !.base_dir = after_rmtree(ARGS, @)]
                    ELSE proc
       IN proc' = Leave(swept, "KeyboardInterrupt")
    /\ UNCHANGED <<ARGS, corpus, ret, projects, tasks, completed, consumed,
                   printed, retcode, runs, old_results, results, git, state,
                   inners, d_printed>>

MainNext ==
    \/ MainBegin
    \/ MainFinish
    \/ MainInterrupt
    \/ PrimerNext
    \/ BisectNext
    \/ DiagNext

SpecMain == MainInit /\ [][MainNext]_vars

(***************************************************************************)
(* Properties of main.                                                     *)
(***************************************************************************)
ProcessOver == proc.pc \in {"exited", "propagated"}

\* C11 as stated: every exception raised while parsing the options,
\* preparing the base directory or running the coroutine is caught once and
\* the process exits with 70.
C11_AsStated ==
    proc.raised # "" =>
        /\ proc.pc = "exited"
        /\ proc.exit_code = ExitFault
        /\ proc.traces = 1

\* C11: an exception that is an instance of Exception, raised while the
\* options are parsed, the base directory is prepared or the coroutine runs
\* (the ValueError of an empty selection and failed assertions included),
\* is caught once and the process exits with 70; a SystemExit or
\* KeyboardInterrupt is not caught and leaves main; no other path gives 70:
\* a coroutine that returned gives 0 or 1; and with the clear option the
\* base directory is gone once asyncio.run has ended, however it ended.
C11_TopLevelFault ==
    /\ proc.traces <= 1
    /\ proc.raised \in {"ParseError", "OSError", "Exception"} =>
            /\ proc.pc = "exited"
            /\ proc.exit_code = ExitFault
            /\ proc.traces = 1
    /\ proc.raised \in {"SystemExit", "KeyboardInterrupt"} =>
            proc.pc = "propagated" /\ proc.traces = 0
    /\ (proc.pc = "exited" /\ CoroPc = "raised") =>
            proc.raised = "Exception" /\ proc.exit_code = ExitFault
    /\ (proc.pc = "exited" /\ proc.exit_code = ExitFault) =>
            proc.raised \in {"ParseError", "OSError", "Exception"}
    /\ (proc.pc = "exited" /\ proc.raised = "") =>
            /\ CoroPc = "done"
            /\ proc.traces = 0
            /\ proc.exit_code \in {0, 1}
            /\ coro_of(ARGS) = "primer" => proc.exit_code = retcode
            /\ coro_of(ARGS) # "primer" => proc.exit_code = 0
    /\ (proc.pc = "running" /\ CoroPc \in {"done", "raised"}) => ENABLED MainFinish
    /\ (ProcessOver /\ ARGS.clear
            /\ proc.raised \in {"", "Exception", "KeyboardInterrupt"}) =>
            ~proc.base_dir

\* bisect with a typeshed revision and the clear option: the assertion
\* failed, was caught once, the process exited with 70 and the base
\* directory is gone.
C11_Witness ==
    /\ proc.pc = "exited"
    /\ coro_of(ARGS) = "bisect"
    /\ ARGS.new_typeshed
    /\ ARGS.clear
    /\ hist.raised = "typeshed"
    /\ proc.raised = "Exception"
    /\ proc.exit_code = ExitFault
    /\ proc.traces = 1
    /\ ~proc.base_dir

\* No project matches the selection criteria.
NoSelection == ARGS.local_project = None /\ filtered_projects(ARGS, corpus) = <<>>

\* C12 as stated: when no project matches, the coroutine of every mode is
\* at its start or has raised, with no checker set-up begun and no task
\* started.
C12_SelectionEmptyFirst ==
    NoSelection =>
        /\ p_pc \in {"idle", "select_projects", "raised"}
        /\ b_pc \in {"idle", "start", "raised"}
        /\ d_pc \in {"idle", "start", "raised"}
        /\ tasks = <<>> /\ runs = <<>> /\ inners = <<>>
====
